---- MODULE Spec2Model ----
(***************************************************************************)
(* ctr-camera-rs: the main loop of src/main.rs as a state machine.         *)
(* One step of the machine is one iteration of `while apt.main_loop()`;    *)
(* the host services (input, software keyboard, sockets, camera, cfgu)     *)
(* are inputs chosen nondeterministically for each iteration.              *)
(***************************************************************************)
EXTENDS Integers, Sequences, FiniteSets, TLC

\* Number of loop iterations explored.
MaxFrames == 5

\* Option::None for stream_or_none; connections are numbered from 1.
None == 0

\* The buttons the program tests, and one it never tests (Y).
KeyPad == {"START", "A", "B", "X", "Y"}

\* Addresses the user may type into the software keyboard.
Texts == {"192.168.1.1:5000", "10.0.0.2:80"}

\* Button values returned by Swkbd::get_string, and its error.
Buttons == {"Right", "Left", "Middle"}
KbResults == Buttons \cup {"Err"}

\* `let old_keys = KeyPad::empty();` is never reassigned.
old_keys == {}

VARIABLES
    pc,              \* "start" | "loop" | "exited" | "aborted"
    status,          \* AppStatus
    stream_or_none,  \* None or the number of the stored connection
    conns,           \* every TcpStream created so far
    cam,             \* the camera configuration and the calls made on it
    keys,            \* the key set polled in the latest iteration
    log,             \* the host calls and prints of the latest step, in order
    frame,           \* number of iterations run
    peak             \* most connections ever open at the same moment

vars == <<pc, status, stream_or_none, conns, cam, keys, log, frame, peak>>

AppStatus == {"NotConnected", "Connected", "Settings"}

----------------------------------------------------------------------------
(* Helpers: sequencing of statements over a machine record m.              *)

Running(m) == m.pc = "loop"

Res(ok) == IF ok THEN "ok" ELSE "err"

\* A host call that cannot fail, or whose result is not inspected.
Say(m, e) == IF Running(m) THEN [m EXCEPT !.log = Append(@, e)] ELSE m

println(m, s) == Say(m, <<"println", s>>)

\* `call().unwrap()`: a panic ends the process at this point.
unwrap(m, call, ok) ==
    IF Running(m)
    THEN [m EXCEPT !.log = Append(@, <<call, Res(ok)>>),
                   !.pc = IF ok THEN @ ELSE "aborted"]
    ELSE m

\* KeyPad::intersects with a single-key mask.
intersects(ks, k) == ks \cap {k} # {}

\* A connection is open from connect until shutdown is called on it or it
\* is dropped.
Open(c) == c.shutdowns = 0 /\ ~c.dropped

OpenCount(cs) == Cardinality({i \in DOMAIN cs : Open(cs[i])})

Max(a, b) == IF a >= b THEN a ELSE b

\* impl Display for AppError (thiserror #[error] strings).
Display(e) ==
    CASE e = "Unknown" -> "Unknown error"
      [] e = "Ctru"    -> "libctru error"
      [] e = "Swkbd"   -> "Software keyboard error"
      [] e = "Io"      -> "I/O error"

ErrorLines == {Display(e) : e \in {"Unknown", "Ctru", "Swkbd", "Io"}}

----------------------------------------------------------------------------
(* fn setup, fn settings, fn init_cameras                                  *)

setup(m, model_ok) ==
    LET m1 == println(m, "ctr-camera-rs v0.1.0 by Lena")
        m2 == println(m1, "https://github.com/adryzz/ctr-camera-rs")
        m3 == unwrap(Say(m2, <<"host_address", "ok">>), "cfgu.model", model_ok)
        m4 == println(m3, "IP: {}, running on {:?}")
        m5 == println(m4, "Press START to exit or A to connect to a server.")
        m6 == println(m5, "Press X to go into the settings menu")
        m7 == println(println(println(m6, "bar 46"), "bar 45"), "bar 47")
    IN  println(println(m7, "bar 45"), "bar 46")

\* sfail: 0 when every camera query succeeds, else the first that fails.
settings(m, sfail) ==
    LET m0 == println(m, "Selected camera: yes")
        m1 == println(unwrap(m0, "is_auto_exposure_enabled", sfail # 1),
                      "Auto exposure: {}")
        m2 == println(unwrap(m1, "is_auto_white_balance_enabled", sfail # 2),
                      "Auto white balance: {}")
    IN  println(unwrap(m2, "is_trimming_enabled", sfail # 3), "Trimming: {}")

\* init_cameras without the `?` operators: errors are ignored.
init_cameras_IgnoreErrors(c, fr_ok, of_ok) ==
    [cam |-> [c EXCEPT !.calls = @ \o <<"set_frame_rate", "set_output_format">>,
                       !.frame_rate = IF fr_ok THEN "Fps30" ELSE @,
                       !.output_format = IF of_ok THEN "Yuv422" ELSE @],
     r |-> "Ok"]

init_cameras(c, fr_ok, of_ok) ==
    LET c1 == [c EXCEPT !.calls = Append(@, "set_frame_rate"),
                        !.frame_rate = IF fr_ok THEN "Fps30" ELSE @]
        c2 == [c1 EXCEPT !.calls = Append(@, "set_output_format"),
                         !.output_format = IF of_ok THEN "Yuv422" ELSE @]
    IN  IF ~fr_ok THEN [cam |-> c1, r |-> "Err"]
        ELSE [cam |-> c2, r |-> IF of_ok THEN "Ok" ELSE "Err"]

----------------------------------------------------------------------------
(* fn get_keyboard_text, fn try_connect                                    *)

\* get_keyboard_text taking the Left button as a confirmation too.
get_keyboard_text_LeftConfirms(kb, text) ==
    CASE kb = "Right"  -> [tag |-> "Ok", val |-> text]
      [] kb = "Left"   -> [tag |-> "Ok", val |-> text]
      [] kb = "Middle" -> [tag |-> "Ok", val |-> "None"]
      [] kb = "Err"    -> [tag |-> "Err", val |-> "Swkbd"]

\* kb is what Swkbd::get_string returned: a button, or "Err".
get_keyboard_text(kb, text) ==
    CASE kb = "Right"  -> [tag |-> "Ok", val |-> text]
      [] kb = "Left"   -> [tag |-> "Ok", val |-> "None"]
      [] kb = "Middle" -> [tag |-> "Ok", val |-> "None"]
      [] kb = "Err"    -> [tag |-> "Err", val |-> "Swkbd"]

\* TcpStream::connect(text): on success a new open stream exists.
connect(m, text, ok) ==
    IF ~Running(m) THEN m
    ELSE IF ok
    THEN LET cs == Append(m.conns,
                          [addr |-> text, shutdowns |-> 0, dropped |-> FALSE])
         IN  [m EXCEPT !.log = Append(@, <<"connect", "ok">>),
                       !.conns = cs,
                       !.peak = Max(@, OpenCount(cs))]
    ELSE [m EXCEPT !.log = Append(@, <<"connect", "err">>)]

\* try_connect connecting a second time when the first connect fails.
try_connect_Retry(m, in) ==
    LET m1 == Say(m, <<"swkbd", in.kb>>)
        text_or_none == get_keyboard_text(in.kb, in.text)
    IN  IF text_or_none.tag = "Err"
        THEN [m |-> m1, tag |-> "Err", val |-> text_or_none.val]
        ELSE IF text_or_none.val = "None"
        THEN [m |-> m1, tag |-> "None", val |-> "None"]
        ELSE LET m2 == println(m1, "Connecting to {}...")
                 m3 == connect(m2, text_or_none.val, in.connect_ok)
                 m4 == connect(m3, text_or_none.val, in.connect_ok)
             IN  IF in.connect_ok
                 THEN [m |-> m3, tag |-> "Some", val |-> "Some"]
                 ELSE [m |-> m4, tag |-> "Err", val |-> "Io"]

\* Result: [m, tag, val] with val the new connection, None, or the AppError.
try_connect(m, in) ==
    LET m1 == Say(m, <<"swkbd", in.kb>>)
        text_or_none == get_keyboard_text(in.kb, in.text)
    IN  IF text_or_none.tag = "Err"
        THEN [m |-> m1, tag |-> "Err", val |-> text_or_none.val]
        ELSE IF text_or_none.val = "None"
        THEN [m |-> m1, tag |-> "None", val |-> "None"]
        ELSE LET m2 == println(m1, "Connecting to {}...")
                 m3 == connect(m2, text_or_none.val, in.connect_ok)
             IN  IF in.connect_ok
                 THEN [m |-> m3, tag |-> "Some", val |-> "Some"]
                 ELSE [m |-> m3, tag |-> "Err", val |-> "Io"]

----------------------------------------------------------------------------
(* fn main: the body of the loop                                           *)

\* stream.shutdown(Both).unwrap()
shutdown(m, c, ok) ==
    IF Running(m)
    THEN [m EXCEPT !.conns[c].shutdowns = @ + 1,
                   !.log = Append(@, <<"shutdown", Res(ok)>>),
                   !.pc = IF ok THEN @ ELSE "aborted"]
    ELSE m

\* A TcpStream value goes out of scope.
drop(m, c) ==
    IF Running(m) /\ c # None THEN [m EXCEPT !.conns[c].dropped = TRUE] ELSE m

\* store with the assignment to stream_or_none left out.
store_Forget(m, c) == m

\* `stream_or_none = Some(connection)`: the previous value is dropped.
store(m, c) ==
    IF Running(m)
    THEN [drop(m, m.stream_or_none) EXCEPT !.stream_or_none = c]
    ELSE m

Break(m) ==
    IF Running(m)
    THEN [m EXCEPT !.pc = "exited", !.log = Append(@, <<"break", "loop">>)]
    ELSE m

\* StartBranch with the shutdown call left out.
StartBranch_NoShutdown(m, in) ==
    LET m0 == println(m, "Exiting...")
        c  == m.stream_or_none
        mv == [m0 EXCEPT !.stream_or_none = None]
        pk == Say(mv, <<"peek", Res(in.peek_ok)>>)
    IN  Break(IF c # None THEN drop(pk, c) ELSE m0)

\* Lines 45-53: START.
StartBranch(m, in) ==
    LET m0 == println(m, "Exiting...")
        c  == m.stream_or_none
        mv == [m0 EXCEPT !.stream_or_none = None]
        pk == Say(mv, <<"peek", Res(in.peek_ok)>>)
        sh == IF in.peek_ok THEN shutdown(pk, c, in.shutdown_ok) ELSE pk
    IN  Break(IF c # None THEN drop(sh, c) ELSE m0)

\* NotConnectedBranch with `Err(_) => {}`: the error is not printed.
NotConnectedBranch_SwallowErr(m, in) ==
    LET mx == IF intersects(in.keys, "X")
              THEN settings([m EXCEPT !.status = "Settings"], in.sfail)
              ELSE m
        tc == try_connect(mx, in)
        new == Len(tc.m.conns)
        p  == unwrap(tc.m, "peer_addr", in.peer_ok)
        q  == store(println(p, "Connected to {}."), new)
    IN  IF ~intersects(in.keys, "A") \/ ~Running(mx) THEN mx
        ELSE CASE tc.tag = "Some" ->
                    IF Running(q) THEN [q EXCEPT !.status = "Connected"] ELSE q
               [] tc.tag = "None" -> println(tc.m, "Cancelled")
               [] tc.tag = "Err"  -> tc.m

\* NotConnectedBranch with `else if` for A: X and A exclude each other.
NotConnectedBranch_ElseIf(m, in) ==
    LET tc == try_connect(m, in)
        new == Len(tc.m.conns)
        p  == unwrap(tc.m, "peer_addr", in.peer_ok)
        q  == store(println(p, "Connected to {}."), new)
    IN  IF intersects(in.keys, "X")
        THEN settings([m EXCEPT !.status = "Settings"], in.sfail)
        ELSE IF ~intersects(in.keys, "A") THEN m
        ELSE CASE tc.tag = "Some" ->
                    IF Running(q) THEN [q EXCEPT !.status = "Connected"] ELSE q
               [] tc.tag = "None" -> println(tc.m, "Cancelled")
               [] tc.tag = "Err"  -> println(tc.m, Display(tc.val))

\* Lines 56-76: AppStatus::NotConnected.
NotConnectedBranch(m, in) ==
    LET mx == IF intersects(in.keys, "X")
              THEN settings([m EXCEPT !.status = "Settings"], in.sfail)
              ELSE m
        tc == try_connect(mx, in)
        new == Len(tc.m.conns)
        p  == unwrap(tc.m, "peer_addr", in.peer_ok)
        q  == store(println(p, "Connected to {}."), new)
    IN  IF ~intersects(in.keys, "A") \/ ~Running(mx) THEN mx
        ELSE CASE tc.tag = "Some" ->
                    IF Running(q) THEN [q EXCEPT !.status = "Connected"] ELSE q
               [] tc.tag = "None" -> println(tc.m, "Cancelled")
               [] tc.tag = "Err"  -> println(tc.m, Display(tc.val))

\* SettingsBranch leaving the settings screen on any key, not only on B.
SettingsBranch_AnyKey(m, in) ==
    setup(Say([m EXCEPT !.status = "NotConnected"], <<"console.clear", "ok">>),
          in.model_ok)

\* Lines 77-83: AppStatus::Settings.
SettingsBranch(m, in) ==
    IF intersects(in.keys, "B")
    THEN setup(Say([m EXCEPT !.status = "NotConnected"],
                   <<"console.clear", "ok">>), in.model_ok)
    ELSE m

\* ConnectedBranch returning to the menu on B without shutting the stream down.
ConnectedBranch_NoShutdown(m, in) ==
    IF m.stream_or_none # None
    THEN IF intersects(in.keys, "B")
         THEN LET m1 == setup(Say(m, <<"console.clear", "ok">>), in.model_ok)
                  m2 == println(unwrap(m1, "peer_addr", in.peer_ok),
                                "Disconnected from {}.")
              IN  IF Running(m2) THEN [m2 EXCEPT !.status = "NotConnected"]
                  ELSE m2
         ELSE m
    ELSE [m EXCEPT !.status = "NotConnected"]

\* ConnectedBranch setting the status before the shutdown instead of after it.
ConnectedBranch_StatusFirst(m, in) ==
    IF m.stream_or_none # None
    THEN IF intersects(in.keys, "B")
         THEN LET m0 == [m EXCEPT !.status = "NotConnected"]
                  m1 == setup(Say(m0, <<"console.clear", "ok">>), in.model_ok)
                  m2 == println(unwrap(m1, "peer_addr", in.peer_ok),
                                "Disconnected from {}.")
              IN  shutdown(m2, m.stream_or_none, in.shutdown_ok)
         ELSE m
    ELSE [m EXCEPT !.status = "NotConnected"]

\* Lines 84-97: AppStatus::Connected.
ConnectedBranch(m, in) ==
    IF m.stream_or_none # None
    THEN IF intersects(in.keys, "B")
         THEN LET m1 == setup(Say(m, <<"console.clear", "ok">>), in.model_ok)
                  m2 == println(unwrap(m1, "peer_addr", in.peer_ok),
                                "Disconnected from {}.")
                  m3 == shutdown(m2, m.stream_or_none, in.shutdown_ok)
              IN  IF Running(m3) THEN [m3 EXCEPT !.status = "NotConnected"]
                  ELSE m3
         ELSE m
    ELSE [m EXCEPT !.status = "NotConnected"]

\* Match with the Settings arm running the NotConnected arm's code.
Match_SettingsConnects(m, in) ==
    CASE m.status = "NotConnected" -> NotConnectedBranch(m, in)
      [] m.status = "Settings"     -> NotConnectedBranch(m, in)
      [] m.status = "Connected"    -> ConnectedBranch(m, in)

\* Lines 55-98: match status.
Match(m, in) ==
    CASE m.status = "NotConnected" -> NotConnectedBranch(m, in)
      [] m.status = "Settings"     -> SettingsBranch(m, in)
      [] m.status = "Connected"    -> ConnectedBranch(m, in)

\* Line 42.
KeysChanged(ks) == ks # old_keys

\* Lines 101-107.
EndOfFrame(m) ==
    Say(Say(Say(m, <<"flush_buffers", "ok">>), <<"swap_buffers", "ok">>),
        <<"wait_for_vblank", "ok">>)

\* LoopBody testing START after the match on status instead of before it.
LoopBody_StartLast(m, in) ==
    LET m1 == Say(Say(Say(m, <<"main_loop", "true">>), <<"scan_input", "ok">>),
                  <<"keys_held", "ok">>)
        m2 == IF KeysChanged(in.keys) THEN Match(m1, in) ELSE m1
        m3 == IF KeysChanged(in.keys) /\ intersects(in.keys, "START")
              THEN StartBranch(m2, in)
              ELSE m2
    IN  EndOfFrame(m3)

\* LoopBody redrawing the menu in every iteration without input.
LoopBody_IdleRedraw(m, in) ==
    LET m1 == Say(Say(Say(m, <<"main_loop", "true">>), <<"scan_input", "ok">>),
                  <<"keys_held", "ok">>)
        m2 == IF KeysChanged(in.keys)
              THEN IF intersects(in.keys, "START")
                   THEN StartBranch(m1, in)
                   ELSE Match(m1, in)
              ELSE setup(Say(m1, <<"console.clear", "ok">>), in.model_ok)
    IN  EndOfFrame(m2)

\* Lines 37-108: one iteration in which apt.main_loop() returned true.
LoopBody(m, in) ==
    LET m1 == Say(Say(Say(m, <<"main_loop", "true">>), <<"scan_input", "ok">>),
                  <<"keys_held", "ok">>)
        m2 == IF KeysChanged(in.keys)
              THEN IF intersects(in.keys, "START")
                   THEN StartBranch(m1, in)
                   ELSE Match(m1, in)
              ELSE m1
    IN  EndOfFrame(m2)

----------------------------------------------------------------------------
(* The state machine                                                       *)

Cur == [pc |-> pc, status |-> status, stream_or_none |-> stream_or_none,
        conns |-> conns, log |-> <<>>, peak |-> peak]

Input(ks, kb, text, connect_ok, peer_ok, peek_ok, shutdown_ok, model_ok, sfail) ==
    [keys |-> ks, kb |-> kb, text |-> text, connect_ok |-> connect_ok,
     peer_ok |-> peer_ok, peek_ok |-> peek_ok, shutdown_ok |-> shutdown_ok,
     model_ok |-> model_ok, sfail |-> sfail]

\* The values an input may take: all of S where the code reads the input,
\* and the one value d where it never does.
Relevant(read, S, d) == IF read THEN S ELSE {d}

\* The iteration with inputs `in` becomes the next state.
Iterate(in) ==
    LET m == LoopBody(Cur, in)
    IN  /\ pc' = m.pc
        /\ status' = m.status
        /\ stream_or_none' = m.stream_or_none
        /\ conns' = m.conns
        /\ log' = m.log
        /\ peak' = m.peak
        /\ keys' = in.keys
        /\ frame' = frame + 1
        /\ UNCHANGED cam

CanIterate == pc = "loop" /\ frame < MaxFrames

Init ==
    /\ pc = "start"
    /\ status = "NotConnected"
    /\ stream_or_none = None
    /\ conns = <<>>
    /\ cam = [frame_rate |-> "Default", output_format |-> "Default",
              calls |-> <<>>]
    /\ keys = {}
    /\ log = <<>>
    /\ frame = 0
    /\ peak = 0

\* Lines 13-36: service initialisation, init_cameras(camera).unwrap(), setup.
Startup ==
    /\ pc = "start"
    /\ \E hw_ok, fr_ok, of_ok, model_ok \in BOOLEAN :
          LET ic == init_cameras(cam, fr_ok, of_ok)
              m0 == unwrap([Cur EXCEPT !.pc = "loop"], "init", hw_ok)
              m1 == unwrap(m0, "init_cameras", ic.r = "Ok")
              m2 == setup(m1, model_ok)
          IN  /\ cam' = IF hw_ok THEN ic.cam ELSE cam
              /\ pc' = m2.pc
              /\ log' = m2.log
    /\ UNCHANGED <<status, stream_or_none, conns, keys, frame, peak>>

\* MainLoopEnd shutting the stored stream down before main returns.
MainLoopEnd_Shutdown ==
    /\ pc = "loop"
    /\ pc' = "exited"
    /\ log' = << <<"main_loop", "false">> >>
    /\ conns' = IF stream_or_none # None
                THEN drop(shutdown(Cur, stream_or_none, TRUE), stream_or_none).conns
                ELSE conns
    /\ UNCHANGED <<status, stream_or_none, cam, keys, frame, peak>>

\* Line 37: apt.main_loop() returns false; main returns and its locals drop.
MainLoopEnd ==
    /\ pc = "loop"
    /\ pc' = "exited"
    /\ log' = << <<"main_loop", "false">> >>
    /\ conns' = drop(Cur, stream_or_none).conns
    /\ UNCHANGED <<status, stream_or_none, cam, keys, frame, peak>>

\* Line 42 false: the polled key set equals old_keys.
FrameIdle ==
    /\ CanIterate
    /\ Iterate(Input({}, "Left", "10.0.0.2:80", FALSE, TRUE, TRUE, TRUE, TRUE, 0))

\* Lines 45-53.
FrameStart ==
    /\ CanIterate
    /\ \E ks \in SUBSET KeyPad :
          /\ "START" \in ks
          /\ \E peek_ok \in Relevant(stream_or_none # None, BOOLEAN, TRUE) :
             \E shutdown_ok \in Relevant(stream_or_none # None /\ peek_ok,
                                         BOOLEAN, TRUE) :
                Iterate(Input(ks, "Left", "10.0.0.2:80", FALSE, TRUE, peek_ok,
                              shutdown_ok, TRUE, 0))

\* Lines 56-76.
FrameNotConnected ==
    /\ CanIterate
    /\ status = "NotConnected"
    /\ \E ks \in SUBSET KeyPad :
          /\ ks # {} /\ "START" \notin ks
          /\ \E sfail \in Relevant("X" \in ks, 0..3, 0),
                kb \in Relevant("A" \in ks, KbResults, "Left") :
             \E text \in Relevant(kb = "Right", Texts, "10.0.0.2:80"),
                connect_ok \in Relevant(kb = "Right", BOOLEAN, FALSE) :
             \E peer_ok \in Relevant(connect_ok, BOOLEAN, TRUE) :
                Iterate(Input(ks, kb, text, connect_ok, peer_ok, TRUE, TRUE,
                              TRUE, sfail))

\* Lines 77-83.
FrameSettings ==
    /\ CanIterate
    /\ status = "Settings"
    /\ \E ks \in SUBSET KeyPad :
          /\ ks # {} /\ "START" \notin ks
          /\ \E model_ok \in Relevant("B" \in ks, BOOLEAN, TRUE) :
                Iterate(Input(ks, "Left", "10.0.0.2:80", FALSE, TRUE, TRUE,
                              TRUE, model_ok, 0))

\* Lines 84-97.
FrameConnected ==
    /\ CanIterate
    /\ status = "Connected"
    /\ \E ks \in SUBSET KeyPad :
          /\ ks # {} /\ "START" \notin ks
          /\ \E model_ok \in Relevant("B" \in ks, BOOLEAN, TRUE) :
             \E peer_ok \in Relevant("B" \in ks /\ model_ok, BOOLEAN, TRUE) :
             \E shutdown_ok \in Relevant("B" \in ks /\ peer_ok, BOOLEAN, TRUE) :
                Iterate(Input(ks, "Left", "10.0.0.2:80", FALSE, peer_ok, TRUE,
                              shutdown_ok, model_ok, 0))

Next ==
    \/ Startup
    \/ MainLoopEnd
    \/ FrameIdle
    \/ FrameStart
    \/ FrameNotConnected
    \/ FrameSettings
    \/ FrameConnected

Spec == Init /\ [][Next]_vars

----------------------------------------------------------------------------
(* Reading the log of the latest step                                      *)

Has(l, e) == \E i \in DOMAIN l : l[i] = e

Called(l, call) == \E i \in DOMAIN l : l[i][1] = call

Count(l, call) == Cardinality({i \in DOMAIN l : l[i][1] = call})

Printed(l, s) == Has(l, <<"println", s>>)

\* Every occurrence of call a comes before every occurrence of call b.
Before(l, a, b) ==
    \A i, j \in DOMAIN l : (l[i][1] = a /\ l[j][1] = b) => i < j

TypeOK ==
    /\ pc \in {"start", "loop", "exited", "aborted"}
    /\ status \in AppStatus
    /\ stream_or_none \in 0..Len(conns)
    /\ keys \subseteq KeyPad
    /\ frame \in 0..MaxFrames

----------------------------------------------------------------------------
(* Steps of the machine, for the action properties below                   *)

\* This step is an iteration of the loop (main_loop() returned true).
IsFrame == pc = "loop" /\ frame' = frame + 1

Terminated == pc \in {"exited", "aborted"}

EndOnly == << <<"main_loop", "false">> >>

----------------------------------------------------------------------------
(* C1 *)

\* C1: at every moment at most one TCP connection is open (connected and
\* neither shut down nor dropped), between iterations and within them.
C1_AtMostOneOpen == OpenCount(conns) <= 1 /\ peak <= 1

\* A second connection is open after the first one was shut down.
C1_Witness == Len(conns) >= 2 /\ OpenCount(conns) = 1 /\ status = "Connected"

----------------------------------------------------------------------------
(* C2 *)

StartWhileConnected ==
    IsFrame /\ "START" \in keys' /\ status = "Connected" /\ stream_or_none # None

\* C2 as stated: whenever START is held while status is Connected and a
\* connection is stored, shutdown is called on it before the loop exits.
C2_AlwaysShutdown ==
    [][StartWhileConnected =>
          Called(log', "shutdown") /\ Before(log', "shutdown", "break")]_vars

\* C2 amended: START held while Connected probes the stored connection with
\* peek; shutdown is called, before the loop exits, exactly when the probe
\* succeeds, and on the stored connection.
C2_ShutdownIffPeekOk ==
    [][StartWhileConnected =>
          /\ Count(log', "peek") = 1
          /\ Has(log', <<"peek", "ok">>) <=> Called(log', "shutdown")
          /\ Before(log', "peek", "shutdown")
          /\ Before(log', "shutdown", "break")
          /\ Count(log', "shutdown") =
                conns'[stream_or_none].shutdowns - conns[stream_or_none].shutdowns
          /\ Has(log', <<"peek", "err">>) => pc' = "exited"]_vars

\* START was held while connected, the probe succeeded, the stream was shut
\* down and the loop was left.
C2_Witness ==
    /\ pc = "exited" /\ "START" \in keys /\ status = "Connected"
    /\ Has(log, <<"peek", "ok">>) /\ Has(log, <<"shutdown", "ok">>)
    /\ Has(log, <<"break", "loop">>)

----------------------------------------------------------------------------
(* C3 *)

\* The calls and prints by which a key's action shows in the log.
ActionCalls == {"swkbd", "connect", "shutdown", "console.clear", "peek", "break"}

Acted(l) ==
    \/ \E i \in DOMAIN l : l[i][1] \in ActionCalls
    \/ Printed(l, "Selected camera: yes")
    \/ Printed(l, "Exiting...")

\* C3: input is edge-triggered: an iteration that polls the same key set
\* as the previous iteration triggers no key action.
C3_EdgeTriggered == [][(IsFrame /\ frame >= 1 /\ keys' = keys) => ~Acted(log')]_vars

----------------------------------------------------------------------------
(* C4 *)

\* C4: status starts as NotConnected and changes only NotConnected->Settings
\* (X held), NotConnected->Connected (A held, connect succeeded),
\* Settings->NotConnected (B held), Connected->NotConnected (B held).
C4_Transitions ==
    [][/\ pc = "start" => status = "NotConnected"
       /\ status' # status =>
            /\ IsFrame
            /\ \/ /\ status = "NotConnected" /\ status' = "Settings"
                  /\ "X" \in keys'
               \/ /\ status = "NotConnected" /\ status' = "Connected"
                  /\ "A" \in keys' /\ Has(log', <<"connect", "ok">>)
               \/ /\ status = "Settings" /\ status' = "NotConnected"
                  /\ "B" \in keys'
               \/ /\ status = "Connected" /\ status' = "NotConnected"
                  /\ "B" \in keys']_vars

\* B was held while Connected and the status went back to NotConnected.
C4_Witness ==
    /\ status = "NotConnected" /\ "B" \in keys /\ pc = "loop"
    /\ Has(log, <<"shutdown", "ok">>)

----------------------------------------------------------------------------
(* C5 *)

\* C5: an iteration with START held ends the loop in that iteration (by the
\* break, or by the abort of the shutdown unwrap), whatever else is held and
\* whatever the status: no settings, no connection attempt, no status
\* change; and no iteration runs after the loop has ended.
C5_StartFirst ==
    [][/\ (IsFrame /\ "START" \in keys') =>
            /\ \/ pc' = "exited" /\ Has(log', <<"break", "loop">>)
               \/ pc' = "aborted" /\ Has(log', <<"shutdown", "err">>)
            /\ status' = status
            /\ ~Printed(log', "Selected camera: yes")
            /\ ~Called(log', "swkbd")
            /\ ~Called(log', "connect")
            /\ Len(conns') = Len(conns)
       /\ Terminated => frame' = frame /\ pc' = pc]_vars

\* START was held together with A and X in the menu, and the loop ended.
C5_Witness ==
    /\ pc = "exited" /\ {"START", "A", "X"} \subseteq keys
    /\ status = "NotConnected" /\ Has(log, <<"break", "loop">>)

----------------------------------------------------------------------------
(* C6 *)

ErrorPrints(l) ==
    {i \in DOMAIN l : l[i][1] = "println" /\ l[i][2] \in ErrorLines}

AttemptFailed(l) == Has(l, <<"swkbd", "Err">>) \/ Has(l, <<"connect", "err">>)

\* C6: an iteration whose connection attempt fails (keyboard error or
\* connect error) prints exactly one error line, calls connect at most
\* once, does not make the status Connected, leaves the stored connection
\* as it was, and the loop goes on to the next iteration.
C6_FailedAttempt ==
    [][(IsFrame /\ AttemptFailed(log')) =>
          /\ Cardinality(ErrorPrints(log')) = 1
          /\ Has(log', <<"swkbd", "Err">>) =>
                Printed(log', "Software keyboard error") /\ ~Called(log', "connect")
          /\ Has(log', <<"connect", "err">>) => Printed(log', "I/O error")
          /\ Count(log', "connect") <= 1
          /\ Count(log', "swkbd") = 1
          /\ status' # "Connected"
          /\ stream_or_none' = stream_or_none
          /\ conns' = conns
          /\ pc' = "loop"]_vars

\* A TCP connect failed and the loop is still running.
C6_Witness ==
    pc = "loop" /\ Has(log, <<"connect", "err">>) /\ Printed(log, "I/O error")

----------------------------------------------------------------------------
(* C7 *)

Dismissed(l) == Has(l, <<"swkbd", "Left">>) \/ Has(l, <<"swkbd", "Middle">>)

\* C7: in an iteration the keyboard prompt precedes the connect; connect is
\* called only after the keyboard returned with the Right button; when it
\* was dismissed with Left or Middle no connect is made, "Cancelled" is
\* printed, and the attempt changes neither the stored connection nor the
\* status (which is Settings if X was held too, and unchanged otherwise).
C7_KeyboardThenConnect ==
    [][IsFrame =>
          /\ Before(log', "swkbd", "connect")
          /\ Called(log', "connect") => Has(log', <<"swkbd", "Right">>)
          /\ Dismissed(log') =>
                /\ ~Called(log', "connect")
                /\ Printed(log', "Cancelled")
                /\ Cardinality(ErrorPrints(log')) = 0
                /\ stream_or_none' = stream_or_none
                /\ conns' = conns
                /\ status' = IF "X" \in keys' THEN "Settings" ELSE status
                /\ pc' = "loop"]_vars

\* The keyboard was dismissed with the Left button.
C7_Witness ==
    /\ Has(log, <<"swkbd", "Left">>) /\ Printed(log, "Cancelled")
    /\ status = "NotConnected" /\ pc = "loop"

----------------------------------------------------------------------------
(* C8 *)

\* C8: the camera is configured once, frame rate first and output format
\* second, before the first iteration; when setting the frame rate fails
\* the output format is never set, init_cameras returns the error and the
\* loop is never entered: no input is polled, no connection is opened.
C8_CameraInit ==
    /\ cam.calls \in {<<>>, <<"set_frame_rate">>,
                      <<"set_frame_rate", "set_output_format">>}
    /\ (pc = "loop" \/ frame > 0 \/ conns # <<>>) =>
          /\ cam.calls = <<"set_frame_rate", "set_output_format">>
          /\ cam.frame_rate = "Fps30" /\ cam.output_format = "Yuv422"
    /\ (cam.calls # <<>> /\ cam.frame_rate # "Fps30") =>
          /\ cam.calls = <<"set_frame_rate">>
          /\ cam.output_format = "Default"
          /\ pc = "aborted"
          /\ Has(log, <<"init_cameras", "err">>)
          /\ frame = 0 /\ keys = {} /\ conns = <<>>
          /\ ~Called(log, "scan_input")

\* Setting the frame rate failed at startup.
C8_Witness ==
    /\ cam.calls = <<"set_frame_rate">> /\ cam.frame_rate = "Default"
    /\ pc = "aborted"

----------------------------------------------------------------------------
(* C9 *)

Failed(e) == e[2] \in {"err", "Err"}

FrameTail == << <<"flush_buffers", "ok">>, <<"swap_buffers", "ok">>,
                <<"wait_for_vblank", "ok">> >>

\* The failing call at position i aborted the process.
Aborts(l, i, p) == p = "aborted" /\ i = Len(l)

\* The failing call at position i is followed by one printed error line,
\* then by nothing but the end of the iteration, and the loop goes on.
PrintsAndContinues(l, i, p) ==
    /\ p = "loop"
    /\ Len(l) = i + 1 + Len(FrameTail)
    /\ l[i + 1][1] = "println" /\ l[i + 1][2] \in ErrorLines
    /\ SubSeq(l, i + 2, Len(l)) = FrameTail

\* C9 as stated: every failing host call in the loop either aborts the
\* process or is printed as one line after which the loop goes on.
C9_AbortOrPrint ==
    [][IsFrame =>
          \A i \in DOMAIN log' :
             Failed(log'[i]) =>
                Aborts(log', i, pc') \/ PrintsAndContinues(log', i, pc')]_vars

\* C9 amended: every failing host call in the loop other than the peek
\* probe either aborts the process or is printed as one line after which
\* the loop goes on; a failing peek probe on START is swallowed: nothing is
\* printed for it, shutdown is skipped and the loop is left by the break.
C9_AbortOrPrintExceptPeek ==
    [][IsFrame =>
          \A i \in DOMAIN log' :
             Failed(log'[i]) =>
                IF log'[i][1] = "peek"
                THEN /\ pc' = "exited"
                     /\ Len(log') = i + 1
                     /\ log'[i + 1] = <<"break", "loop">>
                ELSE Aborts(log', i, pc') \/ PrintsAndContinues(log', i, pc')]_vars

\* The software keyboard failed; the error was printed and the loop went on.
C9_Witness ==
    /\ pc = "loop" /\ Has(log, <<"swkbd", "Err">>)
    /\ Printed(log, "Software keyboard error")

----------------------------------------------------------------------------
(* C10 *)

ShutdownCalls(cs) == [i \in DOMAIN cs |-> cs[i].shutdowns]

\* C10: the loop is left only by an iteration with START held or by
\* main_loop() returning false; in the latter case no shutdown is called
\* on any connection and the status does not change.
C10_ExitPaths ==
    [][(pc = "loop" /\ pc' = "exited") =>
          /\ \/ IsFrame /\ "START" \in keys' /\ Has(log', <<"break", "loop">>)
             \/ frame' = frame /\ log' = EndOnly
          /\ log' = EndOnly =>
                /\ status' = status
                /\ ShutdownCalls(conns') = ShutdownCalls(conns)
                /\ stream_or_none' = stream_or_none]_vars

\* main_loop() returned false while connected: the stream was never shut down.
C10_Witness ==
    /\ pc = "exited" /\ log = EndOnly /\ status = "Connected"
    /\ stream_or_none # None /\ conns[stream_or_none].shutdowns = 0

----------------------------------------------------------------------------
(* C11 *)

\* The stored connection exists and is open.
HoldsOpen == stream_or_none # None /\ Open(conns[stream_or_none])

\* C11: between iterations a connection is open exactly when status is
\* Connected: Connected implies that stream_or_none holds a connection not
\* yet shut down (so the branch for Connected without a stored connection
\* is never taken), and NotConnected or Settings implies that no connection
\* is open.
C11_OpenIffConnected ==
    pc = "loop" =>
       /\ status = "Connected" => HoldsOpen
       /\ status # "Connected" => OpenCount(conns) = 0
       /\ OpenCount(conns) = 1 => HoldsOpen

\* Between iterations, in the menu again, with a shut-down connection stored.
C11_Witness ==
    /\ pc = "loop" /\ status = "NotConnected" /\ stream_or_none # None
    /\ conns[stream_or_none].shutdowns = 1

----------------------------------------------------------------------------
(* C12 *)

\* C12: shutdown is called at most once on any connection.
C12_ShutdownOnce == \A i \in DOMAIN conns : conns[i].shutdowns <= 1

----------------------------------------------------------------------------
(* C13 *)

\* The log of an iteration in which nothing but polling and the buffer
\* swap happens.
IdleLog ==
    << <<"main_loop", "true">>, <<"scan_input", "ok">>, <<"keys_held", "ok">>,
       <<"flush_buffers", "ok">>, <<"swap_buffers", "ok">>,
       <<"wait_for_vblank", "ok">> >>

NothingHappens ==
    /\ status' = status
    /\ stream_or_none' = stream_or_none
    /\ conns' = conns
    /\ pc' = "loop"
    /\ log' = IdleLog

\* C13: the keyboard prompt and the connect run only in an iteration that
\* begins in NotConnected with A held and START not held; in Settings and
\* in Connected an iteration without B and START changes nothing, whatever
\* else (A, X) is held.
C13_AttemptOnlyInMenu ==
    [][IsFrame =>
          /\ (Called(log', "swkbd") \/ Called(log', "connect")) =>
                status = "NotConnected" /\ "A" \in keys' /\ "START" \notin keys'
          /\ (status \in {"Settings", "Connected"} /\ keys' \cap {"B", "START"} = {})
                => NothingHappens]_vars

\* A and X were held in the settings screen or in the connected state, and
\* nothing happened.
C13_Witness ==
    /\ keys = {"A", "X"} /\ log = IdleLog /\ frame >= 2
    /\ status \in {"Settings", "Connected"}

----------------------------------------------------------------------------
(* C14 *)

\* C14: an iteration in which no key is held changes neither the status nor
\* the stored connection, makes no connection attempt, no shutdown and no
\* menu redraw, and does not leave the loop.
C14_NoKeyNoChange ==
    [][(IsFrame /\ keys' = {}) => NothingHappens]_vars

\* An iteration without keys ran while connected.
C14_Witness ==
    /\ keys = {} /\ frame >= 2 /\ log = IdleLog /\ status = "Connected"
    /\ pc = "loop"

----------------------------------------------------------------------------
(* C15 *)

\* X and A held in an iteration that begins in NotConnected, START not held.
BothInMenu ==
    IsFrame /\ status = "NotConnected" /\ {"X", "A"} \subseteq keys'
            /\ "START" \notin keys'

SettingsCalls ==
    {"is_auto_exposure_enabled", "is_auto_white_balance_enabled",
     "is_trimming_enabled"}

\* What settings() leaves in the log.
IsSettingsEvent(e) ==
    \/ e[1] \in SettingsCalls
    \/ e \in {<<"println", "Selected camera: yes">>,
              <<"println", "Auto exposure: {}">>,
              <<"println", "Auto white balance: {}">>,
              <<"println", "Trimming: {}">>}

SettingsThenAttempt(l) ==
    \A i, j \in DOMAIN l :
       (IsSettingsEvent(l[i]) /\ l[j][1] \in {"swkbd", "connect"}) => i < j

QueryFailed(l) == \E i \in DOMAIN l : l[i][1] \in SettingsCalls /\ l[i][2] = "err"

\* C15 as stated: with X and A held in NotConnected both the settings
\* display and the connection attempt run, in that order, and the status
\* afterwards is Connected if the connect succeeded and Settings if not.
C15_BothRun ==
    [][BothInMenu =>
          /\ Printed(log', "Trimming: {}")
          /\ Called(log', "swkbd")
          /\ SettingsThenAttempt(log')
          /\ status' = IF Has(log', <<"connect", "ok">>) THEN "Connected"
                       ELSE "Settings"]_vars

\* C15 amended: the settings display runs first; the connection attempt
\* runs after it unless a camera query of the display aborted the process;
\* the status afterwards is Connected if the connect succeeded and the
\* peer_addr unwrap did not abort, and Settings in every other case.
C15_BothRunUnlessAbort ==
    [][BothInMenu =>
          /\ Printed(log', "Selected camera: yes")
          /\ QueryFailed(log') <=> ~Printed(log', "Trimming: {}")
          /\ QueryFailed(log') <=> ~Called(log', "swkbd")
          /\ SettingsThenAttempt(log')
          /\ status' = IF Has(log', <<"connect", "ok">>)
                          /\ Has(log', <<"peer_addr", "ok">>)
                       THEN "Connected"
                       ELSE "Settings"
          /\ pc' = IF QueryFailed(log') \/ Has(log', <<"peer_addr", "err">>)
                   THEN "aborted"
                   ELSE "loop"]_vars

\* X and A were held in the menu; the display ran, then the connect
\* succeeded.
C15_Witness ==
    /\ {"X", "A"} \subseteq keys /\ status = "Connected" /\ pc = "loop"
    /\ Printed(log, "Trimming: {}") /\ Has(log, <<"connect", "ok">>)

----------------------------------------------------------------------------
(* C16 *)

\* B held in an iteration that begins in Connected, START not held.
DisconnectFrame ==
    /\ IsFrame /\ status = "Connected" /\ stream_or_none # None
    /\ "B" \in keys' /\ "START" \notin keys'

MenuLines ==
    {"ctr-camera-rs v0.1.0 by Lena", "https://github.com/adryzz/ctr-camera-rs",
     "IP: {}, running on {:?}",
     "Press START to exit or A to connect to a server.",
     "Press X to go into the settings menu", "bar 46", "bar 45", "bar 47"}

\* The step of the disconnect an event belongs to; 0 for the polling and
\* the buffer swap around it.
Stage(e) ==
    CASE e[1] = "console.clear" -> 1
      [] e[1] \in {"host_address", "cfgu.model"} -> 2
      [] e[1] = "println" /\ e[2] \in MenuLines -> 2
      [] e[1] = "peer_addr" -> 3
      [] e = <<"println", "Disconnected from {}.">> -> 4
      [] e[1] = "shutdown" -> 5
      [] OTHER -> 0

InStageOrder(l) ==
    \A i, j \in DOMAIN l :
       (i < j /\ Stage(l[i]) > 0 /\ Stage(l[j]) > 0) => Stage(l[i]) <= Stage(l[j])

\* C16: on B in Connected the console is cleared and the menu reprinted,
\* then "Disconnected from" is printed, then shutdown is called, then the
\* status is set; the status becomes NotConnected exactly when the shutdown
\* call succeeded (a failing one aborts with the status still Connected)
\* and the stream stays stored; a later connect that succeeds in
\* NotConnected replaces the stored shut-down stream, every time.
C16_DisconnectReconnect ==
    [][/\ DisconnectFrame =>
            /\ Count(log', "console.clear") = 1
            /\ InStageOrder(log')
            /\ Called(log', "shutdown") =>
                  /\ Printed(log', "Disconnected from {}.")
                  /\ \A s \in MenuLines : Printed(log', s)
                  /\ Count(log', "shutdown") = 1
            /\ conns'[stream_or_none].shutdowns =
                  conns[stream_or_none].shutdowns + Count(log', "shutdown")
            /\ status' = IF Has(log', <<"shutdown", "ok">>) THEN "NotConnected"
                         ELSE "Connected"
            /\ Has(log', <<"shutdown", "err">>) => pc' = "aborted"
            /\ pc' = "loop" <=> Has(log', <<"shutdown", "ok">>)
            /\ stream_or_none' = stream_or_none
       /\ (IsFrame /\ status = "NotConnected" /\ stream_or_none # None
             /\ "START" \notin keys' /\ Has(log', <<"connect", "ok">>)
             /\ pc' = "loop") =>
            /\ status' = "Connected"
            /\ stream_or_none' = Len(conns') /\ stream_or_none' # stream_or_none
            /\ Open(conns'[stream_or_none'])
            /\ conns[stream_or_none].shutdowns = 1
            /\ conns'[stream_or_none].dropped]_vars

\* Connected, disconnected with B and connected again with A, twice over:
\* the third stream is stored and open, the earlier ones were each shut down
\* once and dropped.
C16_Witness ==
    /\ pc = "loop" /\ status = "Connected" /\ Len(conns) >= 3
    /\ stream_or_none = Len(conns) /\ Open(conns[stream_or_none])
    /\ \A i \in 1..(Len(conns) - 1) :
          conns[i].shutdowns = 1 /\ conns[i].dropped
====
